---------------------------- MODULE Spec2Model ----------------------------
(***************************************************************************)
(* Snake game: the Snake and Food entities (src/src/snake.ts), the game    *)
(* session (class Game, src/src/main.ts, second listing) and the           *)
(* requestAnimationFrame loop (src/src/game-loop-controller.ts).           *)
(*                                                                         *)
(* Three specifications share the module:                                  *)
(*   Spec      the game session driven by keys, clicks and interval ticks   *)
(*   SpecSnake the Snake class driven by arbitrary calls of its methods     *)
(*   SpecLoop  the GameLoopController driven by frames, start() and stop()  *)
(* The variables of the specifications not running stay at their idle      *)
(* value.                                                                  *)
(***************************************************************************)
EXTENDS Integers, Sequences, FiniteSets, TLC

VARIABLES
  \* ---- game session (Game, Snake, Food, Score, GameStateManager) ----
  gameState,        \* GameStateManager gameState subject
  scoreSubject,     \* GameStateManager score subject
  currentScore,     \* Score.currentScore (fed by the score subscription)
  highScore,        \* localStorage 'snakeHighScore', as a number
  body,             \* Snake.body, head first
  currentDirection, \* Snake.currentDirection
  moveQueue,        \* Snake.moveQueue
  food,             \* Food.position
  tileCount,        \* Renderer.tileCount (the grid is tileCount x tileCount)
  gameLoop,         \* Game.gameLoop is not null
  activeTimers,     \* number of live setInterval timers
  overlay,          \* FullScreenDialog: "none", "settings" or "info"
  wasPlaying,       \* the wasPlaying captured by showInfo's onClose
  dialog,           \* GameStateDialog content: "none", "paused" or "end"
  drawn,            \* what Renderer.render drew last: <<body, food>>
  hung,             \* Food.generate is spinning in its do-while loop
  lastOp,           \* what ran last: "init", "restart", "apply", another
                    \* "input", or the kind of tick
  \* ---- Snake driven directly (SpecSnake) ----
  snakeCall,        \* the last Snake method called: [op, arg, ret, before]
                    \* (before: the queue length a queueDirection call found)
  snakeMoves,       \* calls of move() so far
  \* ---- GameLoopController (SpecLoop) ----
  isRunning,        \* state.isRunning
  lastUpdateTime,   \* state.lastUpdateTime
  accumulator,      \* state.accumulator
  frameCount,       \* state.frameCount
  lastFpsUpdate,    \* state.lastFpsUpdate
  currentFps,       \* state.currentFps
  animationId,      \* this.animationId: "null" or "id"
  rafPending,       \* the callback animationId names is still pending
  rafLeaked,        \* pending callbacks whose id animationId no longer holds
  recoveryTimers,   \* pending setTimeout callbacks of handleError
  now,              \* the clock (performance.now and the frame timestamp)
  lpc,              \* "idle", or "loop" inside gameLoopCallback
  frames,           \* frame callbacks executed so far (history)
  frameUpdates,     \* update() calls in the current or last frame (history)
  frameRenders,     \* render() calls in the current or last frame (history)
  frameEnd,         \* how the last frame ended (history)
  updatesTotal,     \* update() calls since the last start() (history)
  sumClamped,       \* clamped elapsed time since the last start() (history)
  clean,            \* no stop() and no error since the last start(), and
                    \* that start() was made between two frames (history)
  errorsReported,   \* calls of callbacks.onError so far (history)
  loopCall,         \* the owner's last call: "start", "stop", else "other"
  ownerStopped,     \* the owner's latest start()/stop() call was stop()
  \* ---- the browser's localStorage ----
  storeWritable,    \* localStorage.setItem succeeds (FALSE: it throws)
  \* ---- one Subject<T> (SpecSubject) ----
  subjState,        \* Subject.state
  subscribers,      \* Subject.subscribers: the handlers, in insertion order
  cbOf,             \* cbOf[k]: the callback given to the k-th subscribe()
  closedSubs,       \* the subscriptions whose closed flag is true
  pending,          \* notify(): the part of the snapshot not yet invoked
  invoked,          \* invocations made by the last setState (history)
  snapshot,         \* the handlers registered when it began (history)
  closedAtSet,      \* the subscriptions closed when it began (history)
  lastSet,          \* its new value and the state it found (history)
  lastSeen,         \* lastSeen[k]: the newState subscription k received last,
                    \* or the state it was created in (history)
  \* ---- a session left without input (SpecQuiet) ----
  quietTicks        \* ticks since the last input event; -1 while input goes on

gameVars == <<gameState, scoreSubject, currentScore, highScore, body,
              currentDirection, moveQueue, food, tileCount, gameLoop,
              activeTimers, overlay, wasPlaying, dialog, drawn, hung, lastOp>>

snakeVars == <<snakeCall, snakeMoves>>

loopVars == <<isRunning, lastUpdateTime, accumulator, frameCount,
              lastFpsUpdate, currentFps, animationId, rafPending, rafLeaked,
              recoveryTimers, now, lpc, frames, frameUpdates, frameRenders,
              frameEnd, updatesTotal, sumClamped, clean, errorsReported,
              loopCall, ownerStopped>>

storeVars == <<storeWritable>>

subjVars == <<subjState, subscribers, cbOf, closedSubs, pending, invoked,
              snapshot, closedAtSet, lastSet, lastSeen>>

quietVars == <<quietTicks>>

vars == <<gameVars, snakeVars, loopVars, storeVars, subjVars, quietVars>>

\* the variables each specification leaves at their idle value
notSession == <<snakeVars, loopVars, storeVars, subjVars, quietVars>>

notLoop == <<gameVars, snakeVars, storeVars, subjVars, quietVars>>

notSubject == <<gameVars, snakeVars, loopVars, storeVars, quietVars>>

notQuiet == <<snakeVars, loopVars, storeVars, subjVars>>

\* ------------------------------------------------------------------ bounds

\* Ticks are explored while the body has at most this many cells.
MaxLen == 3

\* SpecSnake explores at most this many calls of Snake.move().
MaxMoves == 2

\* SpecLoop explores at most this many frame callbacks.
MaxFrames == 4

\* ------------------------------------------------------- positions, directions

Pos(px, py) == [x |-> px, y |-> py]

INITIAL_DIRECTION == Pos(0, 0)

UP == Pos(0, -1)
DOWN == Pos(0, 1)
LEFT == Pos(-1, 0)
RIGHT == Pos(1, 0)

DIRECTIONS == {UP, DOWN, LEFT, RIGHT}

\* GameSettings.GRID_OPTIONS offers 10, 20 and 40 tiles; the model keeps two
\* options, scaled to 2 and 3 tiles, so that whole boards can be explored.
GRID_OPTIONS == {2, 3}

Cells(tc) == {Pos(cx, cy) : cx \in 0..(tc - 1), cy \in 0..(tc - 1)}

SeqToSet(s) == {s[i] : i \in 1..Len(s)}

\* ------------------------------------------------------------------ Snake

\* faulty variant: the front of the queue is taken instead of its last entry
getNextQueuedDirection_front(cur, q) ==
  IF Len(q) > 0 THEN q[1] ELSE cur

getNextQueuedDirection(cur, q) ==
  IF Len(q) > 0 THEN q[Len(q)] ELSE cur

isValidDirectionChange(cur, q, n) ==
  LET current == getNextQueuedDirection(cur, q)
  IN ~(n.x = -current.x /\ n.y = -current.y)

\* faulty variant: the direction is taken as given
setDirectionChoices_asGiven(d) == {d}

\* setDirection(d): what currentDirection can become; the zero vector is
\* replaced by getRandomDirection()
setDirectionChoices(d) ==
  IF d.x = 0 /\ d.y = 0 THEN {UP, DOWN, LEFT, RIGHT} ELSE {d}

\* faulty variant: the cap is tested off by one
queueDirection_offByOne(q, d) ==
  IF Len(q) <= 2 THEN Append(q, d) ELSE q

queueDirection(q, d) ==
  IF Len(q) < 2 THEN Append(q, d) ELSE q

\* move(): the direction the step is taken in, the queue left, the new body
\* faulty variant: the newest queued direction is taken, not the oldest
moveDirection_newest(cur, q) == IF Len(q) > 0 THEN q[Len(q)] ELSE cur

moveDirection(cur, q) == IF Len(q) > 0 THEN Head(q) ELSE cur

\* faulty variant: move() empties the queue
moveRest_clear(q) == <<>>

moveRest(q) == IF Len(q) > 0 THEN Tail(q) ELSE q

moveBody(b, d) == <<Pos(b[1].x + d.x, b[1].y + d.y)>> \o b

\* faulty variant: the tail is popped without the length guard
removeTail_unguarded(b) == SubSeq(b, 1, Len(b) - 1)

removeTail(b) ==
  IF Len(b) > 1 THEN SubSeq(b, 1, Len(b) - 1) ELSE b

\* faulty variant: the head is compared with no cell
checkSelfCollision_never(b) == FALSE

\* faulty variant: the cell the tail is about to leave is not compared
checkSelfCollision_exceptTail(b) ==
  \E i \in 2..(Len(b) - 1) : b[1].x = b[i].x /\ b[1].y = b[i].y

checkSelfCollision(b) ==
  \E i \in 2..Len(b) : b[1].x = b[i].x /\ b[1].y = b[i].y

\* faulty variant: no edge is tested
checkWallCollision_never(b, tc) == FALSE

\* faulty variant: only the left and top edges are tested
checkWallCollision_lowOnly(b, tc) == b[1].x < 0 \/ b[1].y < 0

checkWallCollision(b, tc) ==
  b[1].x < 0 \/ b[1].x >= tc \/ b[1].y < 0 \/ b[1].y >= tc

\* faulty variant: the snake is put in the corner of the grid
snakeInitBody_corner(tc) == <<Pos(0, 0)>>

snakeInitBody(tc) == <<Pos(tc \div 2, tc \div 2)>>

\* ------------------------------------------------------------------- Food

FOOD_SCORE == 10

\* faulty variant: the sample is taken without looking at the snake
generateChoices_any(b, tc) == Cells(tc)

\* The cells Food.generate can return: its loop ends on a sample that is on
\* no body cell; with no such cell it never ends.
generateChoices(b, tc) == Cells(tc) \ SeqToSet(b)

\* faulty variant: the head is never found on the food
foodCheckCollision_never(f, p) == FALSE

\* faulty variant: only the column is compared
foodCheckCollision_xOnly(f, p) == f.x = p.x

foodCheckCollision(f, p) == f.x = p.x /\ f.y = p.y

\* ------------------------------------------------------------------ Score

\* faulty variant: the points replace the score
addPoints_replace(cur, points) == points

\* Score.addPoints: the value handed to setScore
addPoints(cur, points) == cur + points

\* Score.saveHighScore writes to the store: a new high score
setItemCalled(cur, stored) == cur > stored

\* faulty variant: the score is stored without the comparison
savedHighScore_always(cur, stored) == cur

savedHighScore(cur, stored) == IF cur > stored THEN cur ELSE stored


\* ------------------------------------------------------------ game session

TypeOK ==
  /\ gameState \in {"ready", "playing", "paused", "end"}
  /\ scoreSubject \in Nat /\ currentScore \in Nat /\ highScore \in Nat
  /\ Len(moveQueue) \in 0..2
  /\ tileCount \in GRID_OPTIONS
  /\ gameLoop \in BOOLEAN /\ activeTimers \in Nat
  /\ overlay \in {"none", "settings", "info"}
  /\ dialog \in {"none", "paused", "end"}
  /\ wasPlaying \in BOOLEAN /\ hung \in BOOLEAN

\* clearInterval(this.gameLoop) under "if (this.gameLoop)"
clearedTimers == IF gameLoop THEN activeTimers - 1 ELSE activeTimers

\* faulty variant: the state is set but no interval timer is created
startGame_noTimer ==
  /\ gameState' = "playing"
  /\ dialog' = "none"
  /\ UNCHANGED <<gameLoop, activeTimers>>

\* startGame(): state playing, dialog hidden, a new interval timer
startGame ==
  /\ gameState' = "playing"
  /\ dialog' = "none"
  /\ gameLoop' = TRUE
  /\ activeTimers' = activeTimers + 1

\* faulty variant: the state changes but the interval timer is left alive
stopGamePaused_noClear ==
  /\ gameState' = "paused"
  /\ dialog' = "paused"
  /\ UNCHANGED <<gameLoop, activeTimers>>

\* stopGame('paused'): state paused, timer cleared, the pause dialog shown
stopGamePaused ==
  /\ gameState' = "paused"
  /\ gameLoop' = FALSE
  /\ activeTimers' = clearedTimers
  /\ dialog' = "paused"

togglePause ==
  IF gameState = "playing" THEN stopGamePaused ELSE startGame

\* initializeGame() on a grid of tc tiles: stopGame('ready'), score.init(),
\* setScore(0), snake.init, food.generate, renderer.render
initializeGame(tc) ==
  /\ gameState' = "ready"
  /\ gameLoop' = FALSE
  /\ activeTimers' = clearedTimers
  /\ scoreSubject' = 0
  /\ currentScore' = 0
  /\ body' = snakeInitBody(tc)
  /\ currentDirection' = INITIAL_DIRECTION
  /\ moveQueue' = <<>>
  /\ tileCount' = tc
  /\ IF generateChoices(snakeInitBody(tc), tc) = {}
       THEN hung' = TRUE /\ UNCHANGED <<food, drawn>>
       ELSE /\ food' \in generateChoices(snakeInitBody(tc), tc)
            /\ drawn' = <<body', food'>>
            /\ UNCHANGED hung
  /\ UNCHANGED highScore

\* new Game(): the stored grid option (default 20x20), then initializeGame()
GameInit ==
  /\ tileCount \in GRID_OPTIONS
  /\ gameState = "ready"
  /\ scoreSubject = 0 /\ currentScore = 0
  /\ highScore = 0
  /\ body = snakeInitBody(tileCount)
  /\ currentDirection = INITIAL_DIRECTION
  /\ moveQueue = <<>>
  /\ food \in generateChoices(body, tileCount)
  /\ gameLoop = FALSE /\ activeTimers = 0
  /\ overlay = "none" /\ wasPlaying = FALSE /\ dialog = "none"
  /\ drawn = <<body, food>>
  /\ hung = FALSE
  /\ lastOp = "init"

\* faulty variant: no key is ever ignored
keyIgnored_never(state, ov) == FALSE

\* faulty variant: keys are ignored only while an overlay is open
keyIgnored_overlayOnly(state, ov) == ov # "none"

\* handleKeyPress returns at once in state end or with an overlay open
keyIgnored(state, ov) == state = "end" \/ ov # "none"

\* faulty variant: the direction is set at once in every state
appliesImmediately_always(state) == TRUE

\* handleKeyPress: setDirection and startGame, instead of the queue
appliesImmediately(state) == state = "ready" \/ state = "paused"

\* handleKeyPress: a movement key
KeyDirection(d) ==
  /\ ~hung
  /\ lastOp' = "input"
  /\ IF keyIgnored(gameState, overlay)
       THEN UNCHANGED <<gameState, dialog, gameLoop, activeTimers,
                        currentDirection, moveQueue>>
       ELSE IF isValidDirectionChange(currentDirection, moveQueue, d)
         THEN IF appliesImmediately(gameState)
           THEN /\ currentDirection' \in setDirectionChoices(d)
                /\ moveQueue' = <<>>
                /\ startGame
           ELSE /\ moveQueue' =
                     IF d # getNextQueuedDirection(currentDirection, moveQueue)
                       THEN queueDirection(moveQueue, d)
                       ELSE moveQueue
                /\ UNCHANGED <<gameState, dialog, gameLoop, activeTimers,
                               currentDirection>>
         ELSE UNCHANGED <<gameState, dialog, gameLoop, activeTimers,
                          currentDirection, moveQueue>>
  /\ UNCHANGED <<scoreSubject, currentScore, highScore, body, food, tileCount,
                 overlay, wasPlaying, drawn, hung>>

\* handleKeyPress: the space bar
KeySpace ==
  /\ ~hung
  /\ lastOp' = "input"
  /\ IF keyIgnored(gameState, overlay)
       THEN UNCHANGED <<gameState, dialog, gameLoop, activeTimers>>
       ELSE IF gameState = "playing" \/ gameState = "paused"
         THEN togglePause
         ELSE UNCHANGED <<gameState, dialog, gameLoop, activeTimers>>
  /\ UNCHANGED <<scoreSubject, currentScore, highScore, body,
                 currentDirection, moveQueue, food, tileCount, overlay,
                 wasPlaying, drawn, hung>>

\* faulty variant: the overlay opens over a timer that keeps ticking
showSettings_keepTimer ==
  /\ dialog' = IF gameState = "paused" THEN "none" ELSE dialog
  /\ overlay' = "settings"
  /\ UNCHANGED <<gameState, scoreSubject, currentScore, highScore, body,
                 currentDirection, moveQueue, food, tileCount, wasPlaying,
                 drawn, hung, gameLoop, activeTimers>>

\* showSettings(): the timer is cleared when playing, the FSM state kept
showSettings ==
  /\ gameLoop' = IF gameState = "playing" /\ gameLoop THEN FALSE ELSE gameLoop
  /\ activeTimers' =
       IF gameState = "playing" /\ gameLoop THEN activeTimers - 1
                                            ELSE activeTimers
  /\ dialog' = IF gameState = "paused" THEN "none" ELSE dialog
  /\ overlay' = "settings"
  /\ UNCHANGED <<gameState, scoreSubject, currentScore, highScore, body,
                 currentDirection, moveQueue, food, tileCount, wasPlaying,
                 drawn, hung>>

\* handleKeyPress: Escape with no overlay open
KeyEscape ==
  /\ ~hung
  /\ overlay = "none"
  /\ lastOp' = "input"
  /\ IF keyIgnored(gameState, overlay)
       THEN UNCHANGED <<gameState, scoreSubject, currentScore, highScore,
                        body, currentDirection, moveQueue, food, tileCount,
                        gameLoop, activeTimers, overlay, wasPlaying, dialog,
                        drawn, hung>>
       ELSE showSettings

\* a click on the #settings element
ClickSettings ==
  /\ ~hung
  /\ overlay = "none"
  /\ lastOp' = "input"
  /\ showSettings

\* a click on the #info element: showInfo()
ClickInfo ==
  /\ ~hung
  /\ overlay = "none"
  /\ lastOp' = "input"
  /\ wasPlaying' = (gameState = "playing")
  /\ gameLoop' = IF gameState = "playing" /\ gameLoop THEN FALSE ELSE gameLoop
  /\ activeTimers' =
       IF gameState = "playing" /\ gameLoop THEN activeTimers - 1
                                            ELSE activeTimers
  /\ dialog' = IF gameState = "paused" THEN "none" ELSE dialog
  /\ overlay' = "info"
  /\ UNCHANGED <<gameState, scoreSubject, currentScore, highScore, body,
                 currentDirection, moveQueue, food, tileCount, drawn, hung>>

\* settings overlay: Back button or Escape (onBack)
OverlayBack ==
  /\ ~hung
  /\ overlay = "settings"
  /\ lastOp' = "input"
  /\ overlay' = "none"
  /\ IF gameState = "playing" THEN startGame
     ELSE IF gameState = "paused" THEN togglePause
     ELSE UNCHANGED <<gameState, dialog, gameLoop, activeTimers>>
  /\ UNCHANGED <<scoreSubject, currentScore, highScore, body,
                 currentDirection, moveQueue, food, tileCount, wasPlaying,
                 drawn, hung>>

\* settings overlay: Apply button or Enter (onApply -> restartWithNewSettings)
OverlayApply(option) ==
  /\ ~hung
  /\ overlay = "settings"
  /\ lastOp' = "apply"
  /\ overlay' = "none"
  /\ initializeGame(option)
  /\ UNCHANGED <<wasPlaying, dialog>>

\* info overlay: "Got it!" button or Escape (onClose)
OverlayClose ==
  /\ ~hung
  /\ overlay = "info"
  /\ lastOp' = "input"
  /\ overlay' = "none"
  /\ wasPlaying' = FALSE
  /\ IF wasPlaying THEN startGame
     ELSE IF gameState = "paused" THEN togglePause
     ELSE UNCHANGED <<gameState, dialog, gameLoop, activeTimers>>
  /\ UNCHANGED <<scoreSubject, currentScore, highScore, body,
                 currentDirection, moveQueue, food, tileCount, drawn, hung>>

\* pause dialog: Resume button (onResume)
ClickResume ==
  /\ ~hung
  /\ overlay = "none"
  /\ dialog = "paused"
  /\ lastOp' = "input"
  /\ togglePause
  /\ UNCHANGED <<scoreSubject, currentScore, highScore, body,
                 currentDirection, moveQueue, food, tileCount, overlay,
                 wasPlaying, drawn, hung>>

\* game-over dialog: Restart button (onRestart)
ClickRestart ==
  /\ ~hung
  /\ overlay = "none"
  /\ dialog = "end"
  /\ lastOp' = "restart"
  /\ dialog' = "none"
  /\ initializeGame(tileCount)
  /\ UNCHANGED <<overlay, wasPlaying>>

\* faulty variant: update() returns early only after a game over
updateRuns_unlessEnd(state) == state # "end"

\* update() goes on unless getGameState() !== 'playing'
updateRuns(state) == state = "playing"

\* update(): the interval callback
update ==
  IF ~updateRuns(gameState)
    THEN /\ lastOp' = "tick_noop"
         /\ UNCHANGED <<gameState, scoreSubject, currentScore, highScore,
                        body, currentDirection, moveQueue, food, tileCount,
                        gameLoop, activeTimers, overlay, wasPlaying, dialog,
                        drawn, hung>>
    ELSE
      LET dir == moveDirection(currentDirection, moveQueue)
          moved == moveBody(body, dir)
          crash == checkWallCollision(moved, tileCount)
                     \/ checkSelfCollision(moved)
          eat == foodCheckCollision(food, moved[1])
          \* saveHighScore(): localStorage.setItem throws, and the error
          \* leaves endGame(), checkCollisions() and update()
          threw == crash /\ setItemCalled(currentScore, highScore)
                         /\ ~storeWritable
      IN
      /\ currentDirection' = dir
      /\ moveQueue' = moveRest(moveQueue)
      \* checkCollisions(): endGame() = stopGame('end'), saveHighScore, dialog
      /\ IF crash
           THEN /\ gameState' = "end"
                /\ gameLoop' = FALSE
                /\ activeTimers' = clearedTimers
                /\ highScore' = IF threw THEN highScore
                                 ELSE savedHighScore(currentScore, highScore)
                /\ dialog' = IF threw THEN dialog ELSE "end"
           ELSE UNCHANGED <<gameState, gameLoop, activeTimers, highScore,
                            dialog>>
      \* checkFoodCollision() runs whatever checkCollisions() found
      /\ IF threw
           THEN /\ body' = moved
                /\ UNCHANGED <<scoreSubject, currentScore, food, hung, drawn>>
           ELSE IF eat
           THEN /\ body' = moved
                /\ scoreSubject' = addPoints(currentScore, FOOD_SCORE)
                /\ currentScore' = addPoints(currentScore, FOOD_SCORE)
                /\ IF generateChoices(moved, tileCount) = {}
                     THEN hung' = TRUE /\ UNCHANGED <<food, drawn>>
                     ELSE /\ food' \in generateChoices(moved, tileCount)
                          /\ drawn' = <<body', food'>>
                          /\ UNCHANGED hung
           ELSE /\ body' = removeTail(moved)
                /\ drawn' = <<body', food>>
                /\ UNCHANGED <<scoreSubject, currentScore, food, hung>>
      /\ lastOp' = IF crash THEN "tick_crash"
                   ELSE IF eat THEN "tick_eat" ELSE "tick_move"
      /\ UNCHANGED <<tileCount, overlay, wasPlaying>>

\* a live interval timer fires
Tick ==
  /\ ~hung
  /\ activeTimers > 0
  /\ Len(body) <= MaxLen
  /\ update

\* update() reached outside playing (a callback with no live timer behind it)
StrayTick ==
  /\ ~hung
  /\ gameState # "playing"
  /\ update

\* ------------------------------------------- the Snake class on its own

SnakeIdle ==
  /\ snakeCall = [op |-> "none", arg |-> INITIAL_DIRECTION, ret |-> TRUE,
                  before |-> 0]
  /\ snakeMoves = 0

\* the session variables the Snake class does not own
sessionRest == <<gameState, scoreSubject, currentScore, highScore, food,
                 gameLoop, activeTimers, overlay, wasPlaying, dialog, drawn,
                 hung, lastOp>>

notSnake == <<sessionRest, loopVars, storeVars, subjVars, quietVars>>

\* snake.init(tc)
SnakeInit(tc) ==
  /\ snakeCall' = [op |-> "init", arg |-> INITIAL_DIRECTION, ret |-> TRUE,
                   before |-> 0]
  /\ tileCount' = tc
  /\ body' = snakeInitBody(tc)
  /\ currentDirection' = INITIAL_DIRECTION
  /\ moveQueue' = <<>>
  /\ UNCHANGED snakeMoves

\* snake.setDirection(d); the zero vector is replaced by a random direction
SnakeSetDirection(d) ==
  /\ snakeCall' = [op |-> "setDirection", arg |-> d, ret |-> TRUE,
                   before |-> 0]
  /\ currentDirection' \in setDirectionChoices(d)
  /\ moveQueue' = <<>>
  /\ UNCHANGED <<body, tileCount, snakeMoves>>

\* snake.queueDirection(d)
SnakeQueueDirection(d) ==
  /\ snakeCall' = [op |-> "queueDirection", arg |-> d, ret |-> TRUE,
                   before |-> Len(moveQueue)]
  /\ moveQueue' = queueDirection(moveQueue, d)
  /\ UNCHANGED <<body, currentDirection, tileCount, snakeMoves>>

\* snake.isValidDirectionChange(n)
SnakeIsValidDirectionChange(n) ==
  /\ snakeCall' = [op |-> "isValidDirectionChange", arg |-> n,
                   ret |-> isValidDirectionChange(currentDirection,
                                                  moveQueue, n),
                   before |-> 0]
  /\ UNCHANGED <<body, currentDirection, moveQueue, tileCount, snakeMoves>>

\* snake.move()
SnakeMove ==
  /\ snakeMoves < MaxMoves
  /\ snakeMoves' = snakeMoves + 1
  /\ snakeCall' = [op |-> "move", arg |-> INITIAL_DIRECTION, ret |-> TRUE,
                   before |-> 0]
  /\ currentDirection' = moveDirection(currentDirection, moveQueue)
  /\ moveQueue' = moveRest(moveQueue)
  /\ body' = moveBody(body, moveDirection(currentDirection, moveQueue))
  /\ UNCHANGED tileCount

\* snake.removeTail()
SnakeRemoveTail ==
  /\ snakeCall' = [op |-> "removeTail", arg |-> INITIAL_DIRECTION,
                   ret |-> TRUE, before |-> 0]
  /\ body' = removeTail(body)
  /\ UNCHANGED <<currentDirection, moveQueue, tileCount, snakeMoves>>

\* ------------------------------------------------------ GameLoopController

GAME_SPEED == 150

MAX_FRAME_SKIP == 5

FPS_INTERVAL == 1000

\* elapsed times between two events, in ms
Deltas == {100, 800, 10000}

\* what a callback supplied by the owner does when invoked
\* ("stop": it calls stop(); "restart": it calls stop(), then start())
UpdateOutcomes == {"ok", "throw", "stop", "restart"}

RenderOutcomes == {"ok", "throw", "stop", "restart"}

maxDelta == GAME_SPEED * MAX_FRAME_SKIP

\* faulty variant: the elapsed time is not clamped
clampedDelta_none(deltaTime) == deltaTime

\* Math.min(deltaTime, maxDelta)
clampedDelta(deltaTime) ==
  IF deltaTime < maxDelta THEN deltaTime ELSE maxDelta

\* faulty variant: the accumulator is reset instead of reduced by one step
accumulatorAfterUpdate_reset(acc) == 0

\* this.state.accumulator -= this.config.gameSpeed
accumulatorAfterUpdate(acc) == acc - GAME_SPEED

\* faulty variant: the render call is missing
rendersAfterRender_none(r) == r

\* this.callbacks.render(), once, after the update loop
rendersAfterRender(r) == r + 1

\* Math.round((frameCount * 1000) / elapsed)
roundedFps(fc, elapsed) == (2 * fc * 1000 + elapsed) \div (2 * elapsed)

LoopIdle ==
  /\ isRunning = FALSE
  /\ lastUpdateTime = 0 /\ accumulator = 0 /\ frameCount = 0
  /\ lastFpsUpdate = 0 /\ currentFps = 0
  /\ animationId = "null" /\ rafPending = FALSE /\ rafLeaked = 0
  /\ recoveryTimers = 0
  /\ now = 0
  /\ lpc = "idle"
  /\ frames = 0 /\ frameUpdates = 0 /\ frameRenders = 0 /\ frameEnd = "none"
  /\ updatesTotal = 0 /\ sumClamped = 0 /\ clean = FALSE
  /\ errorsReported = 0
  /\ loopCall = "other"
  /\ ownerStopped = FALSE

\* start() when not running, scheduleNextFrame() included
startEffects ==
  /\ isRunning' = TRUE
  /\ lastUpdateTime' = now'
  /\ accumulator' = 0
  /\ frameCount' = 0
  /\ lastFpsUpdate' = now'
  /\ animationId' = "id"
  /\ rafPending' = TRUE
  /\ rafLeaked' = IF rafPending THEN rafLeaked + 1 ELSE rafLeaked
  /\ updatesTotal' = 0 /\ sumClamped' = 0 /\ clean' = TRUE

\* stop() when running
stopEffects ==
  /\ isRunning' = FALSE
  /\ animationId' = "null"
  /\ rafPending' = IF animationId # "null" THEN FALSE ELSE rafPending
  /\ clean' = FALSE

\* faulty variant: start() without its early return
LoopStart_noGuard ==
  /\ lpc = "idle"
  /\ loopCall' = "start"
  /\ ownerStopped' = FALSE
  /\ UNCHANGED now
  /\ startEffects
  /\ UNCHANGED <<currentFps, recoveryTimers, lpc, frames, frameUpdates,
                 frameRenders, frameEnd, errorsReported>>

\* start() called by the owner between two frames
LoopStart ==
  /\ lpc = "idle"
  /\ loopCall' = "start"
  /\ ownerStopped' = FALSE
  /\ UNCHANGED now
  /\ IF isRunning
       THEN UNCHANGED <<isRunning, lastUpdateTime, accumulator, frameCount,
                        lastFpsUpdate, animationId, rafPending, rafLeaked,
                        updatesTotal, sumClamped, clean>>
       ELSE startEffects
  /\ UNCHANGED <<currentFps, recoveryTimers, lpc, frames, frameUpdates,
                 frameRenders, frameEnd, errorsReported>>

\* stop() called by the owner between two frames
LoopStop ==
  /\ lpc = "idle"
  /\ loopCall' = "stop"
  /\ ownerStopped' = TRUE
  /\ IF isRunning
       THEN stopEffects
       ELSE UNCHANGED <<isRunning, animationId, rafPending, clean>>
  /\ UNCHANGED <<lastUpdateTime, accumulator, frameCount, lastFpsUpdate,
                 currentFps, rafLeaked, recoveryTimers, now, lpc, frames,
                 frameUpdates, frameRenders, frameEnd, updatesTotal,
                 sumClamped, errorsReported>>

\* the setTimeout callback of handleError
RecoveryFire ==
  /\ lpc = "idle"
  /\ loopCall' = "other"
  /\ recoveryTimers > 0
  /\ recoveryTimers' = recoveryTimers - 1
  /\ UNCHANGED <<now, ownerStopped>>
  /\ IF ~isRunning
       THEN startEffects
       ELSE UNCHANGED <<isRunning, lastUpdateTime, accumulator, frameCount,
                        lastFpsUpdate, animationId, rafPending, rafLeaked,
                        updatesTotal, sumClamped, clean>>
  /\ UNCHANGED <<currentFps, lpc, frames, frameUpdates, frameRenders,
                 frameEnd, errorsReported>>

\* faulty variant: the error is reported but the loop is left running
handleError_noStop ==
  /\ errorsReported' = errorsReported + 1
  /\ recoveryTimers' = recoveryTimers + 1
  /\ UNCHANGED <<isRunning, animationId, rafPending, clean>>

\* handleError(): onError, stop(), the recovery timer
handleError ==
  /\ errorsReported' = errorsReported + 1
  /\ recoveryTimers' = recoveryTimers + 1
  /\ IF isRunning
       THEN stopEffects
       ELSE UNCHANGED <<isRunning, animationId, rafPending, clean>>

\* gameLoopCallback(currentTime), up to the update loop; dt ms have passed
FrameBegin(dt) ==
  /\ lpc = "idle"
  /\ loopCall' = "other"
  /\ frames < MaxFrames
  /\ \E fired \in {"current" : c \in {1} \cap (IF rafPending THEN {1} ELSE {})}
                    \cup {"leaked" : c \in {1} \cap
                                        (IF rafLeaked > 0 THEN {1} ELSE {})} :
       /\ rafPending' = IF fired = "current" THEN FALSE ELSE rafPending
       /\ rafLeaked' = IF fired = "leaked" THEN rafLeaked - 1 ELSE rafLeaked
  /\ now' = now + dt
  /\ frames' = frames + 1
  /\ frameUpdates' = 0
  /\ frameRenders' = 0
  /\ IF ~isRunning
       THEN /\ frameEnd' = "skipped"
            /\ UNCHANGED <<lastUpdateTime, accumulator, sumClamped, lpc>>
       ELSE /\ frameEnd' = "running"
            /\ lastUpdateTime' = now'
            /\ accumulator' = accumulator + clampedDelta(now' - lastUpdateTime)
            /\ sumClamped' = sumClamped + clampedDelta(now' - lastUpdateTime)
            /\ lpc' = "loop"
  /\ UNCHANGED <<isRunning, frameCount, lastFpsUpdate, currentFps,
                 animationId, recoveryTimers, updatesTotal, clean,
                 errorsReported, ownerStopped>>

\* stop() and then start(), called from inside the update or render callback
restartEffects ==
  LET stillPending ==
        IF isRunning /\ animationId # "null" THEN FALSE ELSE rafPending
  IN
  /\ isRunning' = TRUE
  /\ lastUpdateTime' = now
  /\ frameCount' = 0
  /\ lastFpsUpdate' = now
  /\ animationId' = "id"
  /\ rafPending' = TRUE
  /\ rafLeaked' = IF stillPending THEN rafLeaked + 1 ELSE rafLeaked
  /\ updatesTotal' = 0 /\ sumClamped' = 0 /\ clean' = FALSE
  /\ ownerStopped' = FALSE

\* one pass of the while loop: callbacks.update()
FrameUpdate(outcome) ==
  /\ lpc = "loop"
  /\ loopCall' = "other"
  /\ accumulator >= GAME_SPEED
  /\ frameUpdates' = frameUpdates + 1
  /\ IF outcome = "throw"
       THEN /\ handleError
            /\ lpc' = "idle"
            /\ frameEnd' = "update_threw"
            /\ updatesTotal' = updatesTotal + 1
            /\ UNCHANGED <<accumulator, lastUpdateTime, frameCount,
                           lastFpsUpdate, rafLeaked, sumClamped,
                           ownerStopped>>
       ELSE IF outcome = "restart"
       THEN /\ restartEffects
            /\ accumulator' = accumulatorAfterUpdate(0)
            /\ UNCHANGED <<lpc, frameEnd, errorsReported, recoveryTimers>>
       ELSE /\ accumulator' = accumulatorAfterUpdate(accumulator)
            /\ updatesTotal' = updatesTotal + 1
            /\ IF outcome = "stop" /\ isRunning
                 THEN stopEffects
                 ELSE UNCHANGED <<isRunning, animationId, rafPending, clean>>
            /\ ownerStopped' = IF outcome = "stop" THEN TRUE ELSE ownerStopped
            /\ UNCHANGED <<lpc, frameEnd, errorsReported, recoveryTimers,
                           lastUpdateTime, frameCount, lastFpsUpdate,
                           rafLeaked, sumClamped>>
  /\ UNCHANGED <<currentFps, now, frames, frameRenders>>

\* after the loop: callbacks.render(), updateFps(), scheduleNextFrame()
FrameRender(outcome) ==
  /\ lpc = "loop"
  /\ loopCall' = "other"
  /\ accumulator < GAME_SPEED
  /\ frameRenders' = rendersAfterRender(frameRenders)
  /\ lpc' = "idle"
  /\ IF outcome = "throw"
       THEN /\ handleError
            /\ frameEnd' = "render_threw"
            /\ UNCHANGED <<frameCount, lastFpsUpdate, currentFps, rafLeaked,
                           lastUpdateTime, accumulator, updatesTotal,
                           sumClamped, ownerStopped>>
       ELSE IF outcome = "restart"
       THEN \* start() has put the clock baseline and the FPS window at now
            /\ frameEnd' = "completed"
            /\ isRunning' = TRUE
            /\ lastUpdateTime' = now
            /\ accumulator' = 0
            /\ frameCount' = 1
            /\ lastFpsUpdate' = now
            /\ animationId' = "id"
            /\ rafPending' = TRUE
            /\ rafLeaked' =
                 (IF (IF isRunning /\ animationId # "null"
                        THEN FALSE ELSE rafPending)
                    THEN rafLeaked + 1 ELSE rafLeaked) + 1
            /\ updatesTotal' = 0 /\ sumClamped' = 0 /\ clean' = FALSE
            /\ ownerStopped' = FALSE
            /\ UNCHANGED <<currentFps, errorsReported, recoveryTimers>>
       ELSE /\ frameEnd' = "completed"
            /\ IF now - lastFpsUpdate >= FPS_INTERVAL
                 THEN /\ currentFps' =
                           roundedFps(frameCount + 1, now - lastFpsUpdate)
                      /\ frameCount' = 0
                      /\ lastFpsUpdate' = now
                 ELSE /\ frameCount' = frameCount + 1
                      /\ UNCHANGED <<currentFps, lastFpsUpdate>>
            /\ IF outcome = "stop"
                 THEN /\ IF isRunning
                           THEN stopEffects
                           ELSE UNCHANGED <<isRunning, animationId,
                                            rafPending, clean>>
                      /\ ownerStopped' = TRUE
                      /\ UNCHANGED rafLeaked
                 ELSE /\ IF isRunning
                           THEN /\ animationId' = "id"
                                /\ rafPending' = TRUE
                                /\ rafLeaked' = IF rafPending
                                                  THEN rafLeaked + 1
                                                  ELSE rafLeaked
                           ELSE UNCHANGED <<animationId, rafPending,
                                            rafLeaked>>
                      /\ UNCHANGED <<isRunning, clean, ownerStopped>>
            /\ UNCHANGED <<errorsReported, recoveryTimers, lastUpdateTime,
                           accumulator, updatesTotal, sumClamped>>
  /\ UNCHANGED <<now, frames, frameUpdates>>

\* ---------------------------------------------------------------- Subject

\* subscribe() calls explored
MaxSubs == 3

\* the values a Subject is given
Values == {0, 1}

\* what setState is called with: a value, or a function of the old state
Nexts ==
  {[kind |-> "value", v |-> v] : v \in Values}
    \cup {[kind |-> "keep", v |-> 0], [kind |-> "flip", v |-> 0]}

\* the callbacks handed to subscribe()
Callbacks == {"f", "g"}

\* what a subscriber does when invoked: return, throw, or call the
\* unsubscribe() of subscription k and return
Reactions ==
  {[kind |-> "ok", k |-> 0], [kind |-> "throw", k |-> 0]}
    \cup {[kind |-> "unsub", k |-> i] : i \in 1..MaxSubs}

\* typeof next === 'function' ? next(this.state) : next
newStateOf(next, cur) ==
  IF next.kind = "keep" THEN cur
  ELSE IF next.kind = "flip" THEN 1 - cur
  ELSE next.v

\* faulty variant: no two states are taken as identical
sameState_never(a, b) == FALSE

\* Object.is(this.state, newState)
sameState(a, b) == a = b

\* faulty variant: the callback itself is the member of the Set
handlerOf_callback(k, cb) == [id |-> 0, cb |-> cb]

\* subscribe(): a fresh wrapper function for each call
handlerOf(k, cb) == [id |-> k, cb |-> cb]

\* Set.add: a member is added once, at the end
setAdd(set, h) ==
  IF h \in SeqToSet(set) THEN set ELSE Append(set, h)

\* Set.delete
setDelete(set, h) == SelectSeq(set, LAMBDA e : e # h)

\* faulty variant: an error thrown by a subscriber ends the notification
afterThrow_abort(rest) == <<>>

\* notify(): the catch block goes on with the next subscriber
afterThrow(rest) == rest

\* sub(newState, prevState) for each handler of hs: what each has seen last
received(seen, hs, newState) ==
  [k \in DOMAIN seen |->
     IF \E i \in 1..Len(hs) : hs[i].id = k THEN newState ELSE seen[k]]

\* new Subject(initialState)
SubjectInit ==
  /\ subjState = 0
  /\ subscribers = <<>>
  /\ cbOf = <<>>
  /\ closedSubs = {}
  /\ pending = <<>>
  /\ invoked = <<>>
  /\ snapshot = <<>>
  /\ closedAtSet = {}
  /\ lastSet = [new |-> 0, prev |-> 0]
  /\ lastSeen = <<>>

\* unsubscribe() of subscription k
unsubscribe(k) ==
  IF k \in closedSubs
    THEN UNCHANGED <<closedSubs, subscribers>>
    ELSE /\ closedSubs' = closedSubs \cup {k}
         /\ subscribers' = setDelete(subscribers, handlerOf(k, cbOf[k]))

\* subscribe(cb), called between two setState calls
SubjSubscribe(cb) ==
  /\ pending = <<>>
  /\ Len(cbOf) < MaxSubs
  /\ cbOf' = Append(cbOf, cb)
  /\ subscribers' = setAdd(subscribers, handlerOf(Len(cbOf) + 1, cb))
  /\ lastSeen' = Append(lastSeen, subjState)
  /\ UNCHANGED <<subjState, closedSubs, pending, invoked, snapshot,
                 closedAtSet, lastSet>>

\* subscription k's unsubscribe(), called between two setState calls
SubjUnsubscribe(k) ==
  /\ pending = <<>>
  /\ k \in 1..Len(cbOf)
  /\ unsubscribe(k)
  /\ UNCHANGED <<subjState, cbOf, pending, invoked, snapshot, closedAtSet,
                 lastSet, lastSeen>>

\* setState(next), up to the first subscriber call of notify()
SubjSetState(next) ==
  /\ pending = <<>>
  /\ lastSet' = [new |-> newStateOf(next, subjState), prev |-> subjState]
  /\ invoked' = <<>>
  /\ snapshot' = subscribers
  /\ closedAtSet' = closedSubs
  /\ IF sameState(subjState, newStateOf(next, subjState))
       THEN UNCHANGED <<subjState, pending>>
       ELSE /\ subjState' = newStateOf(next, subjState)
            /\ pending' = subscribers
  /\ UNCHANGED <<subscribers, cbOf, closedSubs, lastSeen>>

\* notify(): one pass of the loop over the snapshot
SubjNotify(reaction) ==
  /\ pending # <<>>
  /\ reaction.k <= Len(cbOf)
  /\ invoked' = Append(invoked, [h |-> Head(pending), new |-> lastSet.new,
                                 prev |-> lastSet.prev,
                                 threw |-> reaction.kind = "throw"])
  /\ pending' = IF reaction.kind = "throw" THEN afterThrow(Tail(pending))
                                           ELSE Tail(pending)
  /\ IF reaction.kind = "unsub"
       THEN unsubscribe(reaction.k)
       ELSE UNCHANGED <<closedSubs, subscribers>>
  /\ lastSeen' = received(lastSeen, <<Head(pending)>>, lastSet.new)
  /\ UNCHANGED <<subjState, cbOf, snapshot, closedAtSet, lastSet>>

\* notify(): one pass of the loop in which the subscriber calls setState(v)
\* and returns: the nested setState runs to its end, notifying every
\* subscriber registered at that moment, before the outer loop goes on
SubjNotifyNested(v) ==
  /\ pending # <<>>
  /\ invoked' = Append(invoked, [h |-> Head(pending), new |-> lastSet.new,
                                 prev |-> lastSet.prev, threw |-> FALSE])
  /\ pending' = Tail(pending)
  /\ IF sameState(subjState, v)
       THEN /\ lastSeen' = received(lastSeen, <<Head(pending)>>, lastSet.new)
            /\ UNCHANGED subjState
       ELSE /\ subjState' = v
            /\ lastSeen' = received(received(lastSeen, <<Head(pending)>>,
                                             lastSet.new),
                                    subscribers, v)
  /\ UNCHANGED <<subscribers, cbOf, closedSubs, snapshot, closedAtSet,
                 lastSet>>

\* ---------------------------------------------------------- specifications

\* the fields of a snake and a session that SpecLoop leaves alone
GameIdle ==
  /\ tileCount = 3
  /\ gameState = "ready"
  /\ scoreSubject = 0 /\ currentScore = 0 /\ highScore = 0
  /\ body = snakeInitBody(tileCount)
  /\ currentDirection = INITIAL_DIRECTION
  /\ moveQueue = <<>>
  /\ food = Pos(0, 0)
  /\ gameLoop = FALSE /\ activeTimers = 0
  /\ overlay = "none" /\ wasPlaying = FALSE /\ dialog = "none"
  /\ drawn = <<body, food>>
  /\ hung = FALSE
  /\ lastOp = "init"

\* a store that takes every write, and input events still to come
StoreFine == storeWritable = TRUE /\ quietTicks = -1

Init == GameInit /\ SnakeIdle /\ LoopIdle /\ StoreFine /\ SubjectInit

Next ==
  \/ (\E d \in DIRECTIONS : KeyDirection(d)) /\ UNCHANGED notSession
  \/ KeySpace /\ UNCHANGED notSession
  \/ KeyEscape /\ UNCHANGED notSession
  \/ ClickSettings /\ UNCHANGED notSession
  \/ ClickInfo /\ UNCHANGED notSession
  \/ OverlayBack /\ UNCHANGED notSession
  \/ (\E option \in GRID_OPTIONS : OverlayApply(option)) /\ UNCHANGED notSession
  \/ OverlayClose /\ UNCHANGED notSession
  \/ ClickResume /\ UNCHANGED notSession
  \/ ClickRestart /\ UNCHANGED notSession
  \/ Tick /\ UNCHANGED notSession

Spec == Init /\ [][Next]_vars

NextStray ==
  \/ Next
  \/ StrayTick /\ UNCHANGED notSession

\* The session in a browser whose localStorage may refuse writes (quota
\* used up, storage disabled for the page).
InitStore ==
  /\ GameInit /\ SnakeIdle /\ LoopIdle /\ SubjectInit
  /\ storeWritable \in BOOLEAN
  /\ quietTicks = -1

SpecStore == InitStore /\ [][Next]_vars

SpecStray == Init /\ [][NextStray]_vars

\* from here on no key, dialog or overlay event reaches the session
LeftAlone ==
  /\ quietTicks = -1
  /\ gameState = "playing"
  /\ ~hung
  /\ quietTicks' = 0
  /\ UNCHANGED gameVars

\* the interval timer fires on a session that is left alone
QuietTick ==
  /\ quietTicks >= 0
  /\ quietTicks <= tileCount + 2
  /\ ~hung
  /\ activeTimers > 0
  /\ update
  /\ quietTicks' = quietTicks + 1

NextQuiet ==
  \/ quietTicks = -1 /\ Next
  \/ LeftAlone /\ UNCHANGED notQuiet
  \/ QuietTick /\ UNCHANGED notQuiet

SpecQuiet == Init /\ [][NextQuiet]_vars

\* a live interval timer goes on firing
SpecQuietFair == SpecQuiet /\ WF_vars(QuietTick /\ UNCHANGED notQuiet)

\* a Snake after init(tc), then any calls of its methods
InitSnake ==
  /\ GameIdle
  /\ LoopIdle
  /\ StoreFine
  /\ SubjectInit
  /\ snakeCall = [op |-> "init", arg |-> INITIAL_DIRECTION, ret |-> TRUE,
                  before |-> 0]
  /\ snakeMoves = 0

NextSnake ==
  \/ (\E tc \in GRID_OPTIONS : SnakeInit(tc)) /\ UNCHANGED notSnake
  \/ (\E d \in DIRECTIONS \cup {INITIAL_DIRECTION} :
        SnakeSetDirection(d)) /\ UNCHANGED notSnake
  \/ (\E d \in DIRECTIONS : SnakeQueueDirection(d)) /\ UNCHANGED notSnake
  \/ (\E n \in DIRECTIONS \cup {INITIAL_DIRECTION} :
        SnakeIsValidDirectionChange(n)) /\ UNCHANGED notSnake
  \/ SnakeMove /\ UNCHANGED notSnake
  \/ SnakeRemoveTail /\ UNCHANGED notSnake

SpecSnake == InitSnake /\ [][NextSnake]_vars

\* a GameLoopController after its constructor
InitLoop == GameIdle /\ SnakeIdle /\ LoopIdle /\ StoreFine /\ SubjectInit

NextLoop ==
  \/ LoopStart /\ UNCHANGED notLoop
  \/ LoopStop /\ UNCHANGED notLoop
  \/ RecoveryFire /\ UNCHANGED notLoop
  \/ (\E dt \in Deltas : FrameBegin(dt)) /\ UNCHANGED notLoop
  \/ (\E outcome \in UpdateOutcomes : FrameUpdate(outcome)) /\ UNCHANGED notLoop
  \/ (\E outcome \in RenderOutcomes : FrameRender(outcome)) /\ UNCHANGED notLoop

SpecLoop == InitLoop /\ [][NextLoop]_vars

\* The browser runs a started frame callback to its end and fires every
\* timeout it was given.
SpecLoopFair ==
  /\ SpecLoop
  /\ WF_vars(RecoveryFire /\ UNCHANGED notLoop)
  /\ WF_vars((\E outcome \in UpdateOutcomes : FrameUpdate(outcome))
               /\ UNCHANGED notLoop)
  /\ WF_vars((\E outcome \in RenderOutcomes : FrameRender(outcome))
               /\ UNCHANGED notLoop)

\* ------------------------------------------------------------- properties

\* the values of lastOp after an update() that ran in state playing
TickKinds == {"tick_move", "tick_eat", "tick_crash"}

\* C1: in every state of the session the snake body has at least one cell,
\* and removeTail() applied to a body of one cell leaves it as it is.
C1_BodyNeverEmpty ==
  /\ Len(body) >= 1
  /\ Len(body) = 1 => removeTail(body) = body

\* a tick has moved a one-cell snake: move() then removeTail()
C1_Witness ==
  lastOp = "tick_move" /\ gameState = "playing" /\ Len(body) = 1

\* C2: no tick of a snake of two or more cells puts the new head on the
\* cell of body[1] (the snake never reverses into its neck).
C2_NoNeckReversal ==
  [][(lastOp' \in TickKinds /\ Len(body) >= 2) => body'[1] # body[2]]_vars

\* the direction in effect once every queued change is applied
effectiveDirection ==
  IF Len(moveQueue) = 0 THEN currentDirection ELSE moveQueue[Len(moveQueue)]

\* C3: isValidDirectionChange(n) is false exactly when n is the opposite of
\* the effective direction (the last queued one, else the current one).
C3_NoReversalLaw ==
  snakeCall.op = "isValidDirectionChange" =>
    (snakeCall.ret <=>
       snakeCall.arg # Pos(-effectiveDirection.x, -effectiveDirection.y))

\* a reversal of the last of two different queued directions was refused
C3_Witness ==
  /\ snakeCall.op = "isValidDirectionChange"
  /\ Len(moveQueue) = 2
  /\ moveQueue[1] # moveQueue[2]
  /\ snakeCall.arg = Pos(-moveQueue[2].x, -moveQueue[2].y)
  /\ snakeCall.ret = FALSE

\* C4: the pending queue never holds more than 2 directions, and a
\* queueDirection call that finds 2 entries leaves the queue unchanged.
C4_QueueBound ==
  /\ [](Len(moveQueue) <= 2)
  /\ [][(snakeCall'.op = "queueDirection" /\ Len(moveQueue) = 2)
          => moveQueue' = moveQueue]_vars

\* queueDirection was called on a full queue
C4_Witness ==
  snakeCall.op = "queueDirection" /\ snakeCall.before = 2

\* C5: a tick in state playing lengthens the body by one cell if the head
\* after move() is on the food, and leaves its length unchanged otherwise.
C5_GrowthLaw ==
  [][lastOp' \in TickKinds =>
       Len(body') = IF body'[1] = food THEN Len(body) + 1 ELSE Len(body)]_vars

\* a snake of two cells has eaten
C5_Witness ==
  lastOp = "tick_eat" /\ Len(body) = 3 /\ scoreSubject = 20

\* C6: a tick that detects a collision ends the session and does nothing
\* else: the tail stays, the score stays, nothing is redrawn.
C6_CollisionAbortsTick ==
  [][lastOp' = "tick_crash" =>
       /\ gameState' = "end"
       /\ Len(body') = Len(body) + 1
       /\ scoreSubject' = scoreSubject
       /\ drawn' = drawn]_vars

\* C7: update() reached in ready, paused or end changes nothing of the
\* snake, the food, the score, the stored high score or the FSM state.
C7_TickNoOpOutsidePlaying ==
  [][(gameState # "playing" /\ lastOp' \in TickKinds \cup {"tick_noop"}) =>
       UNCHANGED <<body, currentDirection, moveQueue, food, scoreSubject,
                   currentScore, highScore, gameState>>]_vars

\* update() was reached while paused, with a grown snake
C7_Witness ==
  lastOp = "tick_noop" /\ gameState = "paused" /\ Len(body) >= 2

\* C8: once a frame is over, with no stop() and no error since start(), the
\* number of update() calls is floor(clamped elapsed time / gameSpeed).
C8_FixedTimestep ==
  (clean /\ lpc = "idle") => updatesTotal = sumClamped \div GAME_SPEED

\* three frames, several updates, a residue in the accumulator
C8_Witness ==
  /\ clean /\ lpc = "idle"
  /\ frames >= 3 /\ updatesTotal >= 3 /\ accumulator > 0

\* C9: one frame callback calls update() at most maxFrameSkip times.
C9_FrameSkipClamp == frameUpdates <= MAX_FRAME_SKIP

\* a frame 10 s after the previous one, on top of a residue, made 5 updates
C9_Witness ==
  /\ frameUpdates = MAX_FRAME_SKIP
  /\ now - lastFpsUpdate >= 10000
  /\ accumulator > 0 /\ accumulator < GAME_SPEED

InitSubject ==
  GameIdle /\ SnakeIdle /\ LoopIdle /\ StoreFine /\ SubjectInit

NextSubject ==
  \/ (\E cb \in Callbacks : SubjSubscribe(cb)) /\ UNCHANGED notSubject
  \/ (\E k \in 1..MaxSubs : SubjUnsubscribe(k)) /\ UNCHANGED notSubject
  \/ (\E next \in Nexts : SubjSetState(next)) /\ UNCHANGED notSubject
  \/ (\E reaction \in Reactions : SubjNotify(reaction))
       /\ UNCHANGED notSubject

SpecSubject == InitSubject /\ [][NextSubject]_vars

\* subscribers that may call setState from inside their callback
NextSubjectNested ==
  \/ NextSubject
  \/ (\E v \in Values : SubjNotifyNested(v)) /\ UNCHANGED notSubject

SpecSubjectNested == InitSubject /\ [][NextSubjectNested]_vars

\* C11: a frame callback in which update or render throws ends with the
\* error reported once, the loop stopped and one recovery timer armed; the
\* timer calls start() exactly when the loop is still stopped; so a loop
\* with a recovery timer pending is eventually running again.
C11_ErrorRecovery ==
  /\ [][(lpc = "loop" /\ frameEnd' \in {"update_threw", "render_threw"}) =>
          /\ lpc' = "idle"
          /\ errorsReported' = errorsReported + 1
          /\ isRunning' = FALSE
          /\ recoveryTimers' = recoveryTimers + 1]_vars
  /\ [][recoveryTimers' = recoveryTimers - 1 =>
          /\ isRunning' = TRUE
          /\ isRunning =>
                UNCHANGED <<lastUpdateTime, accumulator, frameCount,
                            lastFpsUpdate, animationId, rafPending>>
          /\ ~isRunning =>
                /\ lastUpdateTime' = now /\ accumulator' = 0
                /\ frameCount' = 0 /\ lastFpsUpdate' = now
                /\ rafPending' = TRUE]_vars
  /\ (recoveryTimers > 0) ~> isRunning

\* the recovery timer has restarted a loop that a throwing render stopped
C11_Witness ==
  /\ frameEnd = "render_threw" /\ errorsReported = 1
  /\ recoveryTimers = 0 /\ isRunning /\ rafPending /\ clean

\* C12: start() called while the loop is running and stop() called while
\* it is stopped change no field of the controller: clock baseline,
\* accumulator, frame count, FPS window and pending frame stay as they are.
C12_StartStopIdempotent ==
  [][((loopCall' = "start" /\ isRunning) \/ (loopCall' = "stop" /\ ~isRunning))
       => UNCHANGED <<isRunning, lastUpdateTime, accumulator, frameCount,
                      lastFpsUpdate, currentFps, animationId, rafPending,
                      rafLeaked, recoveryTimers>>]_vars

\* start() was called on a running loop that holds a residue and a frame
C12_Witness ==
  /\ loopCall = "start" /\ isRunning
  /\ accumulator > 0 /\ frameCount > 0 /\ rafPending

\* C13: when Food.generate has returned (at initialisation, and on a tick
\* that ate) the food is inside the grid and on no cell of the snake body
\* that was passed in.
C13_FoodPlacement ==
  ((lastOp = "tick_eat" \/ gameState = "ready") /\ ~hung) =>
    /\ food.x \in 0..(tileCount - 1)
    /\ food.y \in 0..(tileCount - 1)
    /\ \A i \in 1..Len(body) : body[i] # food

\* food was regenerated on a 3x3 grid around a snake of four cells
C13_Witness ==
  lastOp = "tick_eat" /\ ~hung /\ tileCount = 3 /\ Len(body) = 4

\* C14: Food.generate always returns: the session is never left spinning
\* in its sampling loop, also when the snake covers the whole grid.
C14_GenerateTerminates == ~hung

\* the direction move() steps in: the front of the queue, else the current
activeDirection ==
  IF Len(moveQueue) > 0 THEN moveQueue[1] ELSE currentDirection

\* C15: move() puts the new head at the previous head plus the active
\* direction, componentwise, and keeps the previous body, in order, behind
\* it; the active direction becomes current and leaves the queue.
C15_HeadStep ==
  [][snakeCall'.op = "move" =>
       /\ body'[1].x = body[1].x + activeDirection.x
       /\ body'[1].y = body[1].y + activeDirection.y
       /\ Len(body') = Len(body) + 1
       /\ \A i \in 1..Len(body) : body'[i + 1] = body[i]
       /\ currentDirection' = activeDirection
       /\ moveQueue' = IF Len(moveQueue) > 0 THEN Tail(moveQueue)
                                             ELSE moveQueue]_vars

\* two moves, the second a turn taken from the queue with one more queued
C15_Witness ==
  /\ snakeCall.op = "move" /\ Len(body) = 3 /\ Len(moveQueue) = 1
  /\ body[1] = Pos(body[2].x + currentDirection.x,
                   body[2].y + currentDirection.y)
  /\ body[2] # Pos(body[3].x + currentDirection.x,
                   body[3].y + currentDirection.y)

\* C16: with no overlay open, a direction key that is not the reverse of
\* the effective direction, pressed in ready or paused, leaves the session
\* playing with that direction current, the queue empty and one interval
\* timer running.
C16_DirectionStartsGame ==
  [][\A d \in DIRECTIONS :
       (/\ gameState \in {"ready", "paused"}
        /\ overlay = "none"
        /\ d # Pos(-effectiveDirection.x, -effectiveDirection.y)
        /\ KeyDirection(d))
       => /\ gameState' = "playing"
          /\ currentDirection' = d
          /\ moveQueue' = <<>>
          /\ gameLoop' = TRUE
          /\ activeTimers' = 1]_vars

\* a grown snake, resumed by a direction key other than its last heading
C16_Witness ==
  /\ gameState = "playing" /\ lastOp = "input" /\ activeTimers = 1
  /\ Len(body) >= 2 /\ moveQueue = <<>>
  /\ body[1] # Pos(body[2].x + currentDirection.x,
                   body[2].y + currentDirection.y)

\* C17: the step from playing to paused stops the timer and leaves body,
\* direction, queue, food and score as they are; so does every step (a
\* tick included) that keeps the session paused; and the space bar pressed
\* while paused returns to playing, with one timer, from exactly that state.
C17_PauseKeepsState ==
  /\ [][((gameState = "playing" /\ gameState' = "paused")
          \/ (gameState = "paused" /\ gameState' = "paused")
          \/ (gameState = "paused" /\ overlay = "none" /\ KeySpace))
         => UNCHANGED <<body, currentDirection, moveQueue, food,
                        scoreSubject, currentScore>>]_vars
  /\ [][(gameState = "playing" /\ gameState' = "paused")
         => (gameLoop' = FALSE /\ activeTimers' = 0)]_vars
  /\ [][(gameState = "paused" /\ overlay = "none" /\ KeySpace)
         => (gameState' = "playing" /\ gameLoop' = TRUE
             /\ activeTimers' = 1)]_vars

\* a tick reached a paused session that holds two queued turns and a score
C17_Witness ==
  /\ gameState = "paused" /\ dialog = "paused" /\ lastOp = "tick_noop"
  /\ Len(moveQueue) = 2 /\ Len(body) >= 2 /\ scoreSubject >= 10

\* the session as initializeGame() must leave it on a grid of tc tiles
Reinitialised(tc) ==
  /\ gameState' = "ready"
  /\ scoreSubject' = 0 /\ currentScore' = 0
  /\ tileCount' = tc
  /\ body' = <<Pos(tc \div 2, tc \div 2)>>
  /\ currentDirection' = Pos(0, 0)
  /\ moveQueue' = <<>>
  /\ food'.x \in 0..(tc - 1) /\ food'.y \in 0..(tc - 1)
  /\ food' # body'[1]
  /\ gameLoop' = FALSE /\ activeTimers' = 0
  /\ hung' = FALSE

\* C18: the Restart button of the game-over dialog, and Apply in the
\* settings overlay from any state, leave the session ready with score 0,
\* a one-cell snake in the middle of the (new) grid, the zero direction, an
\* empty queue, the food inside the grid and off the snake, and no timer.
C18_FullReinitialisation ==
  [][/\ lastOp' = "restart" => Reinitialised(tileCount)
     /\ lastOp' = "apply" =>
          \A option \in GRID_OPTIONS :
            OverlayApply(option) => Reinitialised(option)]_vars

\* a session is ready again after a game that scored, on the 2x2 grid
C18_Witness ==
  /\ gameState = "ready" /\ lastOp = "restart" /\ dialog = "none"
  /\ highScore >= 10 /\ scoreSubject = 0 /\ tileCount = 2

\* C19: opening the settings or info overlay, and closing it with Back or
\* Close, each leave the FSM state, the snake, the food and the score as
\* they were, in every state of the session.
C19_OverlayRetainsState ==
  [][((overlay = "none" /\ overlay' # "none")
      \/ (overlay # "none" /\ overlay' = "none" /\ lastOp' = "input"))
     => UNCHANGED <<gameState, body, currentDirection, moveQueue, food,
                    scoreSubject, currentScore>>]_vars

\* C20 as stated: in state end every key press (a key the open settings
\* overlay handles included) leaves FSM state, snake, food, score and
\* timer unchanged.
C20_KeyInEndNoOp ==
  [][(gameState = "end" /\ lastOp' \in {"input", "apply"}
      /\ overlay' \in {overlay, "none"})
     => UNCHANGED <<gameState, body, currentDirection, moveQueue, food,
                    scoreSubject, currentScore, gameLoop, activeTimers>>]_vars

\* C20 amended: a key handled by handleKeyPress in state end (direction,
\* space, Escape) leaves FSM state, snake, food, score, timer, overlay and
\* dialog unchanged.
C20_HandleKeyPressInEndNoOp ==
  [][(/\ gameState = "end"
      /\ \/ KeySpace
         \/ KeyEscape
         \/ \E d \in DIRECTIONS : KeyDirection(d))
     => UNCHANGED <<gameState, body, currentDirection, moveQueue, food,
                    scoreSubject, currentScore, gameLoop, activeTimers,
                    overlay, dialog, highScore, tileCount>>]_vars

\* a key was pressed after a grown snake crashed
C20_Witness ==
  /\ gameState = "end" /\ lastOp = "input" /\ overlay = "none"
  /\ dialog = "end" /\ activeTimers = 0 /\ Len(body) >= 2

\* C21: in state playing a direction key changes neither currentDirection
\* nor the body: the queue gets the key appended or stays as it is; and
\* while the session stays playing currentDirection changes on ticks only.
C21_KeysOnlyQueueWhilePlaying ==
  /\ [][\A d \in DIRECTIONS :
          (gameState = "playing" /\ lastOp' = "input" /\ KeyDirection(d))
          => /\ UNCHANGED <<currentDirection, body, gameState, food,
                            scoreSubject>>
             /\ moveQueue' \in {moveQueue, Append(moveQueue, d)}]_vars
  /\ [][(gameState = "playing" /\ gameState' = "playing"
          /\ currentDirection' # currentDirection)
         => lastOp' \in TickKinds]_vars

\* two turns are queued behind a grown snake that is still heading on
C21_Witness ==
  /\ gameState = "playing" /\ lastOp = "input" /\ overlay = "none"
  /\ Len(moveQueue) = 2 /\ Len(body) >= 2
  /\ moveQueue[1] # currentDirection
  /\ body[1] = Pos(body[2].x + currentDirection.x,
                   body[2].y + currentDirection.y)

\* C22: in state playing a direction key that is neither the effective
\* direction nor its reverse joins the back of the queue while it holds
\* fewer than 2 entries and is dropped when it holds 2; no step that keeps
\* the session playing, a tick aside, touches the entries already queued;
\* and a tick moves in the front entry and removes just that one. So d1
\* then d2 pressed on an empty queue steer the next two ticks, in order.
C22_TwoKeysFifo ==
  /\ [][\A d \in DIRECTIONS :
          (/\ gameState = "playing" /\ overlay = "none"
           /\ lastOp' = "input"
           /\ d # effectiveDirection
           /\ d # Pos(-effectiveDirection.x, -effectiveDirection.y)
           /\ KeyDirection(d))
          => moveQueue' = IF Len(moveQueue) < 2 THEN Append(moveQueue, d)
                                                ELSE moveQueue]_vars
  /\ [][(gameState = "playing" /\ gameState' = "playing"
          /\ lastOp' \notin TickKinds)
         => /\ Len(moveQueue') >= Len(moveQueue)
            /\ SubSeq(moveQueue', 1, Len(moveQueue)) = moveQueue]_vars
  /\ [][(lastOp' \in TickKinds /\ Len(moveQueue) > 0)
         => /\ body'[1] = Pos(body[1].x + moveQueue[1].x,
                              body[1].y + moveQueue[1].y)
            /\ currentDirection' = moveQueue[1]
            /\ moveQueue' = Tail(moveQueue)]_vars

\* a tick has taken the first of two queued turns, the second is waiting
C22_Witness ==
  /\ gameState = "playing" /\ lastOp \in TickKinds
  /\ Len(moveQueue) = 1 /\ moveQueue[1] # currentDirection
  /\ Len(body) >= 3
  /\ body[1] = Pos(body[2].x + currentDirection.x,
                   body[2].y + currentDirection.y)
  /\ body[2] # Pos(body[3].x + currentDirection.x,
                   body[3].y + currentDirection.y)

\* C23: a tick adds exactly 10 to the score if the head lands on the food
\* and leaves it alone otherwise; any other change of the score is a reset
\* to 0 by a restart or an applied setting; and in every state the score
\* is 10 x (body length - 1).
C23_Scoring ==
  /\ [][lastOp' \in TickKinds =>
          scoreSubject' = IF body'[1] = food THEN scoreSubject + 10
                                             ELSE scoreSubject]_vars
  /\ [][(lastOp' \notin TickKinds /\ scoreSubject' # scoreSubject)
         => (scoreSubject' = 0 /\ lastOp' \in {"restart", "apply"})]_vars
  /\ [](scoreSubject = 10 * (Len(body) - 1) /\ currentScore = scoreSubject)

\* the third food has just been eaten
C23_Witness ==
  lastOp = "tick_eat" /\ scoreSubject = 30 /\ Len(body) = 4 /\ ~hung

\* C24: the stored high score changes only on the step from playing to
\* end, where it becomes the larger of its old value and the score; so it
\* never decreases.
C24_HighScoreMonotone ==
  /\ [][highScore' # highScore
         => (gameState = "playing" /\ gameState' = "end")]_vars
  /\ [][(gameState = "playing" /\ gameState' = "end")
         => highScore' = IF scoreSubject' > highScore THEN scoreSubject'
                                                      ELSE highScore]_vars
  /\ [][highScore' >= highScore]_vars

\* a game ended on 10 points under a stored high score of 20
C24_Witness ==
  /\ gameState = "end" /\ lastOp = "tick_crash"
  /\ scoreSubject = 10 /\ highScore = 20

\* C25: with a store that refuses writes the step from playing to end is
\* still completed: the game-over dialog is shown and the tick runs to its
\* end, drawing the snake it leaves.
C25_StoreFailureGraceful ==
  [][(gameState = "playing" /\ gameState' = "end")
     => (dialog' = "end" /\ drawn'[1] = body')]_vars

\* C26: whenever the session is playing or paused, currentDirection and
\* every queued direction is one of (0,-1), (0,1), (-1,0), (1,0); and
\* setDirection, given the zero vector or one of those four, always sets
\* one of those four.
C26_UnitDirection ==
  LET Units == {Pos(0, -1), Pos(0, 1), Pos(-1, 0), Pos(1, 0)} IN
  /\ gameState \in {"playing", "paused"} =>
       /\ currentDirection \in Units
       /\ \A i \in 1..Len(moveQueue) : moveQueue[i] \in Units
  /\ \A d \in Units \cup {Pos(0, 0)} :
       /\ setDirectionChoices(d) # {}
       /\ setDirectionChoices(d) \subseteq Units

\* a paused session whose direction was set by a key, two turns queued
C26_Witness ==
  /\ gameState = "paused" /\ Len(moveQueue) = 2
  /\ currentDirection = Pos(0, -1) /\ moveQueue[2] = Pos(0, 1)

\* C27: Subject.setState with a value identical to the current state invokes
\* no subscriber and leaves the state as it is; with a different value the
\* state is replaced and every subscriber registered at that moment is
\* invoked exactly once, with (newState, prevState).
C27_ChangeDetection ==
  pending = <<>> =>
    IF lastSet.new = lastSet.prev
      THEN invoked = <<>> /\ subjState = lastSet.prev
      ELSE /\ subjState = lastSet.new
           /\ Len(invoked) = Len(snapshot)
           /\ \A i \in 1..Len(invoked) :
                /\ invoked[i].h = snapshot[i]
                /\ invoked[i].new = lastSet.new
                /\ invoked[i].prev = lastSet.prev
                /\ \A j \in 1..Len(invoked) :
                     invoked[j].h = invoked[i].h => j = i

C27_Witness ==
  /\ pending = <<>>
  /\ lastSet.new # lastSet.prev
  /\ Len(invoked) = 2
  /\ invoked[1].new = 1 /\ invoked[1].prev = 0

\* C28: when a subscriber throws during a notification the new state stays
\* in effect and setState runs on to its end, by which every other subscriber
\* registered for that change has been invoked.
C28_ErrorIsolation ==
  (\E i \in 1..Len(invoked) : invoked[i].threw) =>
    /\ subjState = lastSet.new
    /\ Len(invoked) + Len(pending) = Len(snapshot)
    /\ pending = <<>> =>
         \A h \in SeqToSet(snapshot) :
           \E j \in 1..Len(invoked) : invoked[j].h = h

C28_Witness ==
  /\ pending = <<>>
  /\ Len(invoked) = 3
  /\ invoked[1].threw
  /\ ~invoked[2].threw /\ ~invoked[3].threw

\* C29: once a subscription's unsubscribe() has returned, its closed flag is
\* set and no setState that begins afterwards invokes its subscriber; a second
\* unsubscribe() changes nothing; and exactly the subscriptions not yet closed
\* stay registered, also when several of them share one callback.
C29_SubscriptionCleanup ==
  /\ [](/\ \A i \in 1..Len(invoked) : invoked[i].h.id \notin closedAtSet
        /\ closedSubs \subseteq 1..Len(cbOf)
        /\ SeqToSet(subscribers) =
             {[id |-> k, cb |-> cbOf[k]] :
                k \in (1..Len(cbOf)) \ closedSubs}
        /\ Len(subscribers) = Len(cbOf) - Cardinality(closedSubs))
  /\ [][\A k \in closedSubs :
          SubjUnsubscribe(k) => UNCHANGED <<subscribers, closedSubs>>]_vars
  /\ [][\A k \in (1..Len(cbOf)) \ closedSubs :
          (pending = <<>> /\ SubjUnsubscribe(k)) =>
            /\ k \in closedSubs'
            /\ closedSubs' = closedSubs \cup {k}]_vars

C29_Witness ==
  /\ Len(cbOf) >= 2 /\ cbOf[1] = cbOf[2]
  /\ closedAtSet = {1}
  /\ pending = <<>>
  /\ Len(invoked) = 1 /\ invoked[1].h.id = 2

\* C30: the session state changes only along ready -> playing,
\* playing -> paused, paused -> playing, playing -> end and end -> ready, or
\* to ready when a grid-size setting is applied.
C30_Transitions ==
  [][gameState' # gameState =>
       \/ <<gameState, gameState'>> \in
            {<<"ready", "playing">>, <<"playing", "paused">>,
             <<"paused", "playing">>, <<"playing", "end">>,
             <<"end", "ready">>}
       \/ lastOp' = "apply" /\ gameState' = "ready"]_vars

C30_Witness ==
  /\ gameState = "ready" /\ lastOp = "apply"
  /\ tileCount = 2

\* C31: a tick in state playing ends the session exactly when the cell the
\* head has moved to is outside the grid or is a cell of the body as it was
\* before the tick, the old tail cell included; the end transition leaves no
\* tick timer.
C31_EndIffCollision ==
  [][(gameState = "playing" /\ lastOp' \in TickKinds) =>
       LET hx == body[1].x + activeDirection.x
           hy == body[1].y + activeDirection.y
           outside == hx < 0 \/ hx >= tileCount \/ hy < 0 \/ hy >= tileCount
           onBody == \E i \in 1..Len(body) :
                       body[i].x = hx /\ body[i].y = hy
       IN /\ body'[1] = Pos(hx, hy)
          /\ gameState' = "end" <=> (outside \/ onBody)
          /\ gameState' = "end" => (gameLoop' = FALSE /\ activeTimers' = 0)
          /\ gameState' \in {"playing", "end"}]_vars

\* a tick has ended the session with the head inside the grid
C31_Witness ==
  /\ lastOp = "tick_crash"
  /\ gameState = "end"
  /\ ~checkWallCollision(body, tileCount)
  /\ activeTimers = 0

\* the frame callbacks requested and neither fired nor cancelled
pendingFrames == (IF rafPending THEN 1 ELSE 0) + rafLeaked

\* C32: whenever no controller code is executing, one frame callback is
\* pending if the loop is running and none if it is stopped, whatever
\* start() and stop() calls were made, between frames or from inside the
\* update or render callback.
C32_OnePendingFrame ==
  lpc = "idle" => pendingFrames = (IF isRunning THEN 1 ELSE 0)

\* C33: at most one tick timer is alive, and one is alive exactly when the
\* session is playing with no settings or info overlay open.
C33_TimerIffPlaying ==
  /\ activeTimers <= 1
  /\ activeTimers = 1 <=> (gameState = "playing" /\ overlay = "none")
  /\ gameLoop <=> activeTimers = 1

\* the settings overlay was opened over a running game that had grown
C33_Witness ==
  /\ gameState = "playing" /\ overlay = "settings"
  /\ activeTimers = 0 /\ Len(body) >= 2

\* C34: once the owner has called stop(), and until the owner calls start()
\* again, the loop is stopped whenever no frame callback is executing, and no
\* frame callback gets as far as invoking update or render.
C34_StoppedUntilOwnerStarts ==
  /\ []((ownerStopped /\ lpc = "idle") => ~isRunning)
  /\ [][(ownerStopped /\ lpc = "idle") => lpc' = "idle"]_vars

\* C35: update is never invoked while isRunning is false: after a stop()
\* made from inside the update callback the catch-up loop makes no further
\* update call in that frame.
C35_NoUpdateWhileStopped ==
  [][(lpc = "loop" /\ frameUpdates' = frameUpdates + 1) => isRunning]_vars

\* C36: between events, in states ready, playing and paused, no two cells of
\* the snake body are the same.
C36_BodyCellsDistinct ==
  gameState \in {"ready", "playing", "paused"} =>
    \A i, j \in 1..Len(body) : body[i] = body[j] => i = j

\* a snake of three cells, bent, still playing after a tick that moved it
C36_Witness ==
  /\ gameState = "playing" /\ Len(body) = 3 /\ lastOp = "tick_move"
  /\ body[1].x # body[3].x /\ body[1].y # body[3].y

\* C37: between events, in states ready, playing and paused, every cell of
\* the snake body is inside the grid; a head outside the grid occurs only in
\* state end.
C37_BodyInsideGrid ==
  /\ gameState \in {"ready", "playing", "paused"} =>
       \A i \in 1..Len(body) :
         /\ body[i].x \in 0..(tileCount - 1)
         /\ body[i].y \in 0..(tileCount - 1)
  /\ (body[1].x \notin 0..(tileCount - 1) \/ body[1].y \notin 0..(tileCount - 1))
       => gameState = "end"

\* a grown snake paused with its head in the last column of the grid
C37_Witness ==
  /\ gameState = "paused" /\ Len(body) >= 3
  /\ body[1].x = tileCount - 1

\* C38: between events, in every session state, the food is inside the grid
\* and on no cell of the snake body.
C38_FoodOffBody ==
  ~hung =>
    /\ food.x \in 0..(tileCount - 1)
    /\ food.y \in 0..(tileCount - 1)
    /\ \A i \in 1..Len(body) : body[i] # food

\* two ticks after the food was last generated, the snake next to it
C38_Witness ==
  /\ gameState = "playing" /\ lastOp = "tick_move" /\ Len(body) >= 3
  /\ food.x = body[1].x /\ food.y = body[1].y + 1

\* C39 as stated: a session that is playing and is left without input
\* reaches state end, unless a food regeneration finds no free cell.
C39_QuietSessionEnds ==
  (quietTicks >= 0 /\ gameState = "playing") ~> (gameState = "end" \/ hung)

\* C39 amended: a session that is playing with its tick timer alive and is
\* left without input is still playing after at most tileCount + 1 ticks:
\* the timer stays alive and can fire, and each tick either ends the session
\* or is counted, up to that bound (a food regeneration that finds no free
\* cell aside).
C39_QuietSessionEndsWithTimer ==
  /\ []((quietTicks >= 0 /\ gameState = "playing") =>
          quietTicks <= tileCount + 1)
  /\ []((quietTicks >= 0 /\ gameState = "end") =>
          quietTicks <= tileCount + 2)
  /\ []((quietTicks >= 0 /\ gameState = "playing" /\ overlay = "none"
           /\ ~hung) => ENABLED QuietTick)
  /\ [][(quietTicks >= 0 /\ gameState = "playing" /\ overlay = "none") =>
          \/ gameState' = "end"
          \/ hung'
          \/ /\ gameState' = "playing" /\ overlay' = "none"
             /\ quietTicks' = quietTicks + 1]_vars

\* left alone with two turns queued on the larger grid, ended by a wall
C39_Witness ==
  /\ gameState = "end" /\ ~hung
  /\ quietTicks >= 3
  /\ tileCount = 3

\* C40: every notification a subscriber receives carries as prevState the
\* newState of the notification it received before (the state at subscription
\* time for its first), and once the outermost setState has returned the last
\* newState each registered subscriber received is the state, also when a
\* subscriber calls setState from inside its callback.
C40_InOrder ==
  /\ [](pending = <<>> =>
          \A i \in 1..Len(subscribers) :
            lastSeen[subscribers[i].id] = subjState)
  /\ [][(pending # <<>> /\ pending' # pending) =>
          lastSet.prev = lastSeen[Head(pending).id]]_vars

=============================================================================
